---- MODULE Spec2Model ----
(***************************************************************************)
(* Model of the asynchronous EDF reader: src/src/lib.rs (get_sample,       *)
(* check_bounds) and src/src/async_reader.rs (init_with_file_reader,       *)
(* read_data_window).                                                      *)
(*                                                                         *)
(* Machine integers are scaled: u64 is an unsigned integer of U64Bits      *)
(* bits and f64 a binary float with F64MantissaBits significant bits       *)
(* (round to nearest, ties to even), with F64MantissaBits < U64Bits as in  *)
(* the real pair 53 < 64.  f32 keeps its real 24 significant bits.         *)
(***************************************************************************)
EXTENDS Integers, Sequences, FiniteSets

\* ---------------------------------------------------------------- bounds
U64Bits == 11
F64MantissaBits == 3
MaxBlockDuration == 3
MaxBlocks == 11
MaxTime == 12
MaxShortPrefix == 3
MaxDataLen == 4
MaxIndex == 2
ConcMaxTime == 2
ConcMaxBlocks == 2

\* ------------------------------------------------------ program constants
GeneralHeaderSize == 256
EDF_HEADER_BYTE_SIZE == 256
F32MantissaBits == 24

\* ------------------------------------------------------------- arithmetic
Modulus == 2 ^ U64Bits
U64Max == Modulus - 1
Wrap(x) == x % Modulus

\* n / d rounded to the nearest integer, ties to the even one (IEEE 754
\* roundTiesToEven), for n >= 0 and d > 0.
RoundTiesEven(n, d) ==
  LET q == n \div d
      r == n % d
  IN IF 2 * r > d \/ (2 * r = d /\ q % 2 = 1) THEN q + 1 ELSE q

RECURSIVE BitLength(_)
BitLength(x) == IF x = 0 THEN 0 ELSE 1 + BitLength(x \div 2)

\* `x as fNN` for an unsigned integer x: x rounded to p significant bits.
ToFloat(x, p) ==
  IF x < 2 ^ p THEN x
  ELSE LET e == BitLength(x) - p
       IN RoundTiesEven(x, 2 ^ e) * (2 ^ e)

\* The binary exponent E of a / b (2^E <= a / b < 2^(E+1)), a, b > 0,
\* searched upwards (a >= b) or downwards (a < b) from the start value.
RECURSIVE ExpUp(_, _, _)
ExpUp(a, b, e) == IF b * (2 ^ (e + 1)) <= a THEN ExpUp(a, b, e + 1) ELSE e
RECURSIVE ExpDown(_, _, _)
ExpDown(a, b, e) == IF a * (2 ^ e) < b THEN ExpDown(a, b, e + 1) ELSE 0 - e
FloatExponent(a, b) == IF a >= b THEN ExpUp(a, b, 0) ELSE ExpDown(a, b, 1)

\* `(d as f64 / b as f64).ceil() as u64` for b > 0: both conversions round,
\* the quotient is rounded to F64MantissaBits bits, ceil is exact, and the
\* final cast saturates at u64::MAX.
CeilDivF64(d, b) ==
  LET p == F64MantissaBits
      x == ToFloat(d, p)
      y == ToFloat(b, p)
  IN IF x = 0 THEN 0
     ELSE LET k == p - 1 - FloatExponent(x, y)
              c == IF k <= 0
                   THEN RoundTiesEven(x, y * (2 ^ (0 - k))) * (2 ^ (0 - k))
                   ELSE LET m == RoundTiesEven(x * (2 ^ k), y)
                        IN (m + (2 ^ k) - 1) \div (2 ^ k)
          IN IF c > U64Max THEN U64Max ELSE c

\* An f32 operation on integer-valued operands: the exact result rounded to
\* 24 significant bits.
F32(x) == IF x < 0 THEN 0 - ToFloat(0 - x, F32MantissaBits)
          ELSE ToFloat(x, F32MantissaBits)

\* ---------------------------------------------------------------- results
Ok(v) == [kind |-> "Ok", value |-> v]
Err(e) == [kind |-> "Err", error |-> e]
NoResult == [kind |-> "None"]
UnexpectedEof(index, needed, len) ==
  [kind |-> "UnexpectedEof", index |-> index, needed |-> needed, len |-> len]
InvalidData == [kind |-> "InvalidData"]
InvalidInput == [kind |-> "InvalidInput"]
IoError == [kind |-> "Io"]

\* ------------------------------------------------------------- get_sample
\* i16::from_le_bytes: the first byte is the low one; the u16 bit pattern is
\* read as two's complement.
i16_from_le_bytes(b) ==
  LET u == b[1] + 256 * b[2]
  IN IF u >= 32768 THEN u - 65536 ELSE u

i16_from_be_bytes(b) ==
  LET u == b[2] + 256 * b[1]
  IN IF u >= 32768 THEN u - 65536 ELSE u

get_sample_big_endian(data, index) ==
  LET start == 2 * index
      end == start + 2
  IN IF end > Len(data)
     THEN Err(UnexpectedEof(index, end, Len(data)))
     ELSE Ok(i16_from_be_bytes(SubSeq(data, start + 1, end)))

get_sample(data, index) ==
  LET start == 2 * index
      end == start + 2
  IN IF end > Len(data)
     THEN Err(UnexpectedEof(index, end, Len(data)))
     ELSE LET sample_bytes_slice == SubSeq(data, start + 1, end)
          IN IF Len(sample_bytes_slice) # 2
             THEN Err(InvalidData)
             ELSE Ok(i16_from_le_bytes(sample_bytes_slice))

\* ----------------------------------------------------------------- header
\* One data record holds, per channel, number_of_samples_in_data_record
\* samples of two bytes each.
RECURSIVE SumSamples(_, _)
SumSamples(channels, upto) ==
  IF upto = 0 THEN 0
  ELSE SumSamples(channels, upto - 1)
       + channels[upto].number_of_samples_in_data_record

get_size_of_data_block(h) == 2 * SumSamples(h.channels, Len(h.channels))

Channel(n, dmin, scale, pmin) ==
  [number_of_samples_in_data_record |-> n, digital_minimum |-> dmin,
   scale_factor |-> scale, physical_minimum |-> pmin]

\* Channel layouts of the files read: one channel; two channels of differing
\* sample counts and calibrations; two channels, the second without samples.
ChannelLayouts ==
  { << Channel(1, 0 - 2048, 1, 0 - 200) >>,
    << Channel(1, 0 - 32768, 2, 0), Channel(2, 0, 3, 5) >>,
    << Channel(2, 0 - 2048, 2, 0 - 200), Channel(0, 0, 1, 0) >> }

EDFFile(bd, nb, channels) ==
  [number_of_signals |-> Len(channels), number_of_blocks |-> nb,
   block_duration |-> bd,
   byte_size_header |-> GeneralHeaderSize + EDF_HEADER_BYTE_SIZE * Len(channels),
   channels |-> channels]

NoHeader == [number_of_signals |-> 0, number_of_blocks |-> 0,
             block_duration |-> 0, byte_size_header |-> 0, channels |-> << >>]

\* ------------------------------------------------------------ byte source
\* The bytes of the data region repeat a fixed pattern of period 11, so that
\* reads at different offsets return different bytes.
DataPattern == << 200, 1, 44, 238, 0, 128, 255, 127, 7, 0, 255 >>
FileByte(pos) == DataPattern[(pos % Len(DataPattern)) + 1]
FileRead(offset, length) == [i \in 1..length |-> FileByte(offset + i - 1)]

\* ----------------------------------------------------------- check_bounds
Panic == [kind |-> "Panic"]

check_bounds_inclusive(start_time, duration, edf_header, checks) ==
  LET sum == start_time + duration
      product == edf_header.block_duration * edf_header.number_of_blocks
  IN IF checks /\ (sum > U64Max \/ product > U64Max) THEN Panic
     ELSE IF Wrap(sum) >= Wrap(product) THEN Err(InvalidInput)
     ELSE Ok(<< >>)

\* `checks`: the build traps integer overflow (debug) instead of wrapping
\* (release).
check_bounds(start_time, duration, edf_header, checks) ==
  LET sum == start_time + duration
      product == edf_header.block_duration * edf_header.number_of_blocks
  IN IF checks /\ (sum > U64Max \/ product > U64Max) THEN Panic
     ELSE IF Wrap(sum) > Wrap(product) THEN Err(InvalidInput)
     ELSE Ok(<< >>)

\* ------------------------------------------------------- read_data_window
\* Lines 54-60: the blocks to get and the byte range to read.  A zero
\* block_duration traps in `%` in every build.
window_plan(start_time_ms, duration_ms, h, checks) ==
  IF h.block_duration = 0 THEN Panic
  ELSE
    LET first_block_start_time ==
          start_time_ms - (start_time_ms % h.block_duration)
        first_block_index == first_block_start_time \div h.block_duration
        number_of_blocks_to_get == CeilDivF64(duration_ms, h.block_duration)
        product == first_block_index * get_size_of_data_block(h)
        offset == h.byte_size_header + Wrap(product)
        length_to_read == number_of_blocks_to_get * get_size_of_data_block(h)
    IN IF checks /\ (product > U64Max \/ offset > U64Max
                     \/ length_to_read > U64Max)
       THEN Panic
       ELSE [kind |-> "Plan",
             first_block_index |-> first_block_index,
             number_of_blocks_to_get |-> number_of_blocks_to_get,
             offset |-> Wrap(offset),
             length_to_read |-> Wrap(length_to_read)]

\* Lines 90-94, in f32.
physical_no_offset(digital_sample, channel) ==
  F32(F32(F32(digital_sample) - F32(channel.digital_minimum))
      * channel.scale_factor)

physical(digital_sample, channel) ==
  F32(F32(F32(F32(digital_sample) - F32(channel.digital_minimum))
          * channel.scale_factor)
      + channel.physical_minimum)

\* Lines 81-88: a sample that cannot be read ends the closure with the error.
keep_partial_result(e, result) == Ok(result)

on_sample_error(e, result) == Err(e)

\* Lines 74-100: blocks, then channels in header order, then the channel's
\* samples, with one running sample index.  st holds the loop variables:
\* b (block, from 0), j (channel, from 1), s (sample, from 0), index, result.
RECURSIVE decode_from(_, _, _, _)
decode_from(data, header, number_of_blocks_to_get, st) ==
  IF st.b >= number_of_blocks_to_get THEN Ok(st.result)
  ELSE IF st.j > Len(header.channels)
  THEN decode_from(data, header, number_of_blocks_to_get,
                   [st EXCEPT !.b = @ + 1, !.j = 1, !.s = 0])
  ELSE IF st.s >= header.channels[st.j].number_of_samples_in_data_record
  THEN decode_from(data, header, number_of_blocks_to_get,
                   [st EXCEPT !.j = @ + 1, !.s = 0])
  ELSE LET got == get_sample(data, st.index)
       IN IF got.kind = "Err" THEN on_sample_error(got.error, st.result)
          ELSE decode_from(data, header, number_of_blocks_to_get,
                 [st EXCEPT !.s = @ + 1, !.index = @ + 1,
                            !.result[st.j] =
                               Append(@, physical(got.value,
                                                  header.channels[st.j]))])

\* Lines 67-101: the closure run on the bytes read.
decode(data, header, number_of_blocks_to_get) ==
  decode_from(data, header, number_of_blocks_to_get,
              [b |-> 0, j |-> 1, s |-> 0, index |-> 0,
               result |-> [c \in 1..header.number_of_signals |-> << >>]])

\* ------------------------------------------------------------------ state
VARIABLES
  overflowChecks, \* the build traps integer overflow
  file,           \* the header fields and channel layout stored in the file
  initPc,         \* init_with_file_reader: new, general_read, channel_read,
                  \* ready (a reader was produced), failed
  initReads,      \* the reads init_with_file_reader issued, in order
  initResolved,   \* how each of them resolved
  initError,      \* the error init_with_file_reader's future resolved to
  edf_header,     \* the header under construction, then the reader's header
  pc,             \* per caller: idle, reading, resolved, done, panicked
  req,            \* per caller: the window asked for
  reads,          \* per caller: the reads its read_data_window issued
  resolved,       \* per caller: what its read resolved to
  closure,        \* per caller: what the and_then closure captured
  decodes,        \* per caller: how often the closure ran
  result,         \* per caller: what the returned future resolved to
  sData, sIndex, sResult  \* a direct call of get_sample

vars == << overflowChecks, file, initPc, initReads, initResolved, initError,
           edf_header, pc, req, reads, resolved, closure, decodes, result,
           sData, sIndex, sResult >>

initVars == << initPc, initReads, initResolved, initError >>
taskVars == << pc, req, reads, resolved, closure, decodes, result >>
sampleVars == << sData, sIndex, sResult >>

\* Two concurrent callers of one reader.
Tasks == {1, 2}

ReadRequest(offset, length) == [offset |-> offset, length |-> length]
NoClosure == [header |-> NoHeader, number_of_blocks_to_get |-> 0]
NoRequest == [start_time_ms |-> 0, duration_ms |-> 0]

TasksIdle ==
  /\ pc = [t \in Tasks |-> "idle"]
  /\ req = [t \in Tasks |-> NoRequest]
  /\ reads = [t \in Tasks |-> << >>]
  /\ resolved = [t \in Tasks |-> NoResult]
  /\ closure = [t \in Tasks |-> NoClosure]
  /\ decodes = [t \in Tasks |-> 0]
  /\ result = [t \in Tasks |-> NoResult]

NoSample ==
  /\ sData = << >>
  /\ sIndex = 0
  /\ sResult = NoResult

\* ------------------------------------------------- init_with_file_reader
\* The header bytes a read returns, kept as the byte range they cover.
build_general_header(general_header_raw) ==
  IF general_header_raw = ReadRequest(0, GeneralHeaderSize)
  THEN [file EXCEPT !.channels = << >>]
  ELSE NoHeader

build_channel_headers(h, channel_headers_raw) ==
  IF channel_headers_raw
       = ReadRequest(GeneralHeaderSize,
                     EDF_HEADER_BYTE_SIZE * file.number_of_signals)
  THEN [h EXCEPT !.channels = file.channels]
  ELSE h

channel_header_len_one_more(h) ==
  (h.number_of_signals + 1) * EDF_HEADER_BYTE_SIZE

\* Line 28.
channel_header_len(h) == h.number_of_signals * EDF_HEADER_BYTE_SIZE

\* Line 25: the call issues the read of the general header.
InitCall ==
  /\ initPc = "new"
  /\ initPc' = "general_read"
  /\ initReads' = << ReadRequest(0, GeneralHeaderSize) >>
  /\ UNCHANGED << overflowChecks, file, initResolved, initError, edf_header,
                  taskVars, sampleVars >>

\* Lines 26-30: the first read resolved to bytes; the closure parses them
\* and issues the read of the channel headers.
GeneralReadOk ==
  /\ initPc = "general_read"
  /\ LET h == build_general_header(initReads[1])
     IN /\ edf_header' = h
        /\ initReads' = Append(initReads,
                          ReadRequest(GeneralHeaderSize, channel_header_len(h)))
  /\ initResolved' = Append(initResolved, "ok")
  /\ initPc' = "channel_read"
  /\ UNCHANGED << overflowChecks, file, initError, taskVars, sampleVars >>

\* and_then hands an error of the first read on without running the closure.
GeneralReadErr ==
  /\ initPc = "general_read"
  /\ initResolved' = Append(initResolved, "err")
  /\ initError' = Err(IoError)
  /\ initPc' = "failed"
  /\ UNCHANGED << overflowChecks, file, initReads, edf_header, taskVars,
                  sampleVars >>

\* Lines 31-36: the second read resolved to bytes; the reader is produced.
ChannelReadOk ==
  /\ initPc = "channel_read"
  /\ edf_header' = build_channel_headers(edf_header, initReads[2])
  /\ initResolved' = Append(initResolved, "ok")
  /\ initPc' = "ready"
  /\ UNCHANGED << overflowChecks, file, initReads, initError, taskVars,
                  sampleVars >>

ChannelReadErr ==
  /\ initPc = "channel_read"
  /\ initResolved' = Append(initResolved, "err")
  /\ initError' = Err(IoError)
  /\ initPc' = "failed"
  /\ UNCHANGED << overflowChecks, file, initReads, edf_header, taskVars,
                  sampleVars >>

\* ------------------------------------------------------- read_data_window
\* Lines 49-66 with the bounds check failing to stop the call: the read is
\* issued for a rejected window too.
window_call_reads_when_rejected(t, start_time_ms, duration_ms) ==
  LET checked == check_bounds(start_time_ms, duration_ms, edf_header,
                              overflowChecks)
      plan == window_plan(start_time_ms, duration_ms, edf_header,
                          overflowChecks)
  IN /\ req' = [req EXCEPT ![t] = [start_time_ms |-> start_time_ms,
                                   duration_ms |-> duration_ms]]
     /\ IF checked.kind = "Panic" \/ plan.kind = "Panic"
        THEN /\ pc' = [pc EXCEPT ![t] = "panicked"]
             /\ result' = [result EXCEPT ![t] = Panic]
             /\ UNCHANGED << reads, closure >>
        ELSE /\ pc' = [pc EXCEPT ![t] =
                         IF checked.kind = "Err" THEN "done" ELSE "reading"]
             /\ result' = [result EXCEPT ![t] =
                             IF checked.kind = "Err" THEN checked ELSE @]
             /\ reads' = [reads EXCEPT ![t] =
                            Append(@, ReadRequest(plan.offset,
                                                  plan.length_to_read))]
             /\ closure' = [closure EXCEPT ![t] =
                   [header |-> edf_header,
                    number_of_blocks_to_get |-> plan.number_of_blocks_to_get]]
     /\ UNCHANGED << resolved, decodes >>

\* Lines 49-66: the bounds check, the plan, the header's clone, the read.
window_call(t, start_time_ms, duration_ms) ==
  LET checked == check_bounds(start_time_ms, duration_ms, edf_header,
                              overflowChecks)
      plan == window_plan(start_time_ms, duration_ms, edf_header,
                          overflowChecks)
  IN /\ req' = [req EXCEPT ![t] = [start_time_ms |-> start_time_ms,
                                   duration_ms |-> duration_ms]]
     /\ IF checked.kind = "Panic"
        THEN /\ pc' = [pc EXCEPT ![t] = "panicked"]
             /\ result' = [result EXCEPT ![t] = Panic]
             /\ UNCHANGED << reads, closure >>
        ELSE IF checked.kind = "Err"
        THEN /\ pc' = [pc EXCEPT ![t] = "done"]
             /\ result' = [result EXCEPT ![t] = checked]
             /\ UNCHANGED << reads, closure >>
        ELSE IF plan.kind = "Panic"
        THEN /\ pc' = [pc EXCEPT ![t] = "panicked"]
             /\ result' = [result EXCEPT ![t] = Panic]
             /\ UNCHANGED << reads, closure >>
        ELSE /\ pc' = [pc EXCEPT ![t] = "reading"]
             /\ reads' = [reads EXCEPT ![t] =
                            Append(@, ReadRequest(plan.offset,
                                                  plan.length_to_read))]
             /\ closure' = [closure EXCEPT ![t] =
                   [header |-> edf_header,
                    number_of_blocks_to_get |-> plan.number_of_blocks_to_get]]
             /\ UNCHANGED result
     /\ UNCHANGED << resolved, decodes >>

Call(t, start_time_ms, duration_ms) ==
  /\ initPc = "ready"
  /\ pc[t] = "idle"
  /\ window_call(t, start_time_ms, duration_ms)
  /\ UNCHANGED << overflowChecks, file, initVars, edf_header, sampleVars >>

\* What the byte source may resolve a read to: the bytes asked for, fewer
\* bytes (a prefix of them), or an error.
ShortLengths(length) ==
  { n \in 0..(length - 1) : n < MaxShortPrefix \/ n >= length - 2 }

ReadOutcomes(r) ==
  { Ok(FileRead(r.offset, r.length)), Err(IoError) }
  \cup { Ok(FileRead(r.offset, n)) : n \in ShortLengths(r.length) }

ReadResolve(t) ==
  /\ pc[t] = "reading"
  /\ \E outcome \in ReadOutcomes(reads[t][Len(reads[t])]) :
       resolved' = [resolved EXCEPT ![t] = outcome]
  /\ pc' = [pc EXCEPT ![t] = "resolved"]
  /\ UNCHANGED << overflowChecks, file, initVars, edf_header, req, reads,
                  closure, decodes, result, sampleVars >>

\* and_then with the closure run whatever the read resolved to.
and_then_decode_always(t) ==
  /\ decodes' = [decodes EXCEPT ![t] = @ + 1]
  /\ result' = [result EXCEPT ![t] =
        decode(IF resolved[t].kind = "Ok" THEN resolved[t].value ELSE << >>,
               closure[t].header, closure[t].number_of_blocks_to_get)]

\* Line 67: and_then runs the closure on the bytes of a read that succeeded
\* and hands an error on.
and_then_decode(t) ==
  IF resolved[t].kind = "Ok"
  THEN /\ decodes' = [decodes EXCEPT ![t] = @ + 1]
       /\ result' = [result EXCEPT ![t] =
             decode(resolved[t].value, closure[t].header,
                    closure[t].number_of_blocks_to_get)]
  ELSE /\ result' = [result EXCEPT ![t] = resolved[t]]
       /\ UNCHANGED decodes

AndThen(t) ==
  /\ pc[t] = "resolved"
  /\ and_then_decode(t)
  /\ pc' = [pc EXCEPT ![t] = "done"]
  /\ UNCHANGED << overflowChecks, file, initVars, edf_header, req, reads,
                  resolved, closure, sampleVars >>

\* -------------------------------------------------------------- get_sample
SampleCall ==
  /\ sResult = NoResult
  /\ sResult' = get_sample(sData, sIndex)
  /\ UNCHANGED << overflowChecks, file, initVars, edf_header, taskVars,
                  sData, sIndex >>

\* --------------------------------------------------------- specifications
\* Spec: a reader is constructed from a file, then two callers read windows
\* concurrently.
ConcFiles ==
  { EDFFile(bd, nb, ch) : bd \in 0..ConcMaxTime, nb \in 1..ConcMaxBlocks,
                          ch \in ChannelLayouts }

Init ==
  /\ overflowChecks \in BOOLEAN
  /\ file \in ConcFiles
  /\ initPc = "new"
  /\ initReads = << >>
  /\ initResolved = << >>
  /\ initError = NoResult
  /\ edf_header = NoHeader
  /\ TasksIdle
  /\ NoSample

Next ==
  \/ InitCall
  \/ GeneralReadOk
  \/ GeneralReadErr
  \/ ChannelReadOk
  \/ ChannelReadErr
  \/ \E t \in Tasks : \E s \in 0..ConcMaxTime : \E d \in 0..ConcMaxTime :
       Call(t, s, d)
  \/ \E t \in Tasks : ReadResolve(t)
  \/ \E t \in Tasks : AndThen(t)

Spec == Init /\ [][Next]_vars

\* WindowSpec: one caller, every header and window of the bounded ranges,
\* with start times that make start_time + duration overflow.
WindowFiles ==
  { EDFFile(bd, nb, ch) : bd \in 0..MaxBlockDuration, nb \in 0..MaxBlocks,
                          ch \in ChannelLayouts }

StartTimes == (0..MaxTime) \cup { U64Max - 1, U64Max }
Durations == 0..MaxTime

WindowInit ==
  /\ overflowChecks \in BOOLEAN
  /\ file \in WindowFiles
  /\ initPc = "ready"
  /\ initReads = << ReadRequest(0, GeneralHeaderSize),
                    ReadRequest(GeneralHeaderSize, channel_header_len(file)) >>
  /\ initResolved = << "ok", "ok" >>
  /\ initError = NoResult
  /\ edf_header = file
  /\ TasksIdle
  /\ NoSample

WindowNext ==
  \/ \E s \in StartTimes : \E d \in Durations : Call(1, s, d)
  \/ ReadResolve(1)
  \/ AndThen(1)

WindowSpec == WindowInit /\ [][WindowNext]_vars

\* SampleSpec: get_sample on every buffer of up to MaxDataLen bytes.
SampleBytes == { 0, 1, 44, 128, 200, 238, 255 }

RECURSIVE ByteSeqs(_)
ByteSeqs(n) ==
  IF n = 0 THEN { << >> }
  ELSE LET shorter == ByteSeqs(n - 1)
       IN shorter \cup { Append(q, b) : q \in { x \in shorter : Len(x) = n - 1 },
                                         b \in SampleBytes }

SampleInit ==
  /\ overflowChecks = FALSE
  /\ file = EDFFile(1, 1, << >>)
  /\ initPc = "new"
  /\ initReads = << >>
  /\ initResolved = << >>
  /\ initError = NoResult
  /\ edf_header = NoHeader
  /\ TasksIdle
  /\ sData \in ByteSeqs(MaxDataLen)
  /\ sIndex \in 0..MaxIndex
  /\ sResult = NoResult

SampleNext == SampleCall

SampleSpec == SampleInit /\ [][SampleNext]_vars

\* ------------------------------------------------------------------ claims
Called(t) == pc[t] # "idle"
\* The bounds check let the window through and the read was issued.
Accepted(t) == pc[t] \in {"reading", "resolved", "done"} /\ reads[t] # << >>
SumFits(t) == req[t].start_time_ms + req[t].duration_ms <= U64Max
Recording == edf_header.block_duration * edf_header.number_of_blocks
WindowEnd(t) == req[t].start_time_ms + req[t].duration_ms
FloorDiv(a, b) == a \div b
CeilDiv(a, b) == (a + b - 1) \div b
\* f64 holds the integer exactly.
ExactInF64(x) == x < 2 ^ F64MantissaBits

\* C1: when start_time + duration does not overflow, check_bounds returns an
\* error exactly when start_time + duration > block_duration *
\* number_of_blocks (Ok at equality and below), and read_data_window
\* resolves to that error for exactly the same windows.
C1_BoundsCheckExact ==
  \A t \in Tasks :
    (Called(t) /\ SumFits(t)) =>
      LET past == WindowEnd(t) > Recording
          checked == check_bounds(req[t].start_time_ms, req[t].duration_ms,
                                  edf_header, overflowChecks)
      IN /\ checked = (IF past THEN Err(InvalidInput) ELSE Ok(<< >>))
         /\ (result[t] = Err(InvalidInput)) <=> past

\* A window ending exactly at the end of the recording was accepted.
C1_Witness ==
  /\ pc[1] = "reading"
  /\ req[1].start_time_ms > 0
  /\ req[1].duration_ms > 0
  /\ WindowEnd(1) = Recording

\* C2: for an accepted window with block_duration > 0 the planned blocks
\* cover it: first_block_index * block_duration <= start_time and
\* start_time + duration <= (first_block_index + blocks_to_read) *
\* block_duration.  Stated for non-empty windows whose end does not overflow
\* and whose duration f64 holds exactly.
C2_PlannedBlocksCoverWindow ==
  \A t \in Tasks :
    (/\ Accepted(t)
     /\ SumFits(t)
     /\ req[t].duration_ms > 0
     /\ ExactInF64(req[t].duration_ms)
     /\ closure[t].header.block_duration > 0) =>
      LET h == closure[t].header
          plan == window_plan(req[t].start_time_ms, req[t].duration_ms, h,
                              overflowChecks)
      IN /\ plan.first_block_index * h.block_duration <= req[t].start_time_ms
         /\ WindowEnd(t) <= (plan.first_block_index
                               + closure[t].number_of_blocks_to_get)
                            * h.block_duration

\* C3: for an accepted window with block_duration > 0 the one read issued
\* has offset byte_size_header + floor(start_time / block_duration) *
\* data_record_byte_size and length ceil(duration / block_duration) *
\* data_record_byte_size.  Stated for windows whose end does not overflow.
C3_ReadOffsetAndLength ==
  \A t \in Tasks :
    (/\ Accepted(t)
     /\ SumFits(t)
     /\ closure[t].header.block_duration > 0) =>
      LET h == closure[t].header
          size == get_size_of_data_block(h)
      IN reads[t] =
           << ReadRequest(
                h.byte_size_header
                  + FloorDiv(req[t].start_time_ms, h.block_duration) * size,
                CeilDiv(req[t].duration_ms, h.block_duration) * size) >>

\* The part of C3 that holds of the code: the offset of the read, for every
\* accepted window whose end does not overflow, and offset and length both
\* when f64 holds the duration exactly.
C3_OffsetAndExactLength ==
  \A t \in Tasks :
    (/\ Accepted(t)
     /\ SumFits(t)
     /\ closure[t].header.block_duration > 0) =>
      LET h == closure[t].header
          size == get_size_of_data_block(h)
      IN /\ Len(reads[t]) = 1
         /\ ExactInF64(h.block_duration)
         /\ reads[t][1].offset =
              h.byte_size_header
                + FloorDiv(req[t].start_time_ms, h.block_duration) * size
         /\ ExactInF64(req[t].duration_ms) =>
              reads[t][1].length =
                CeilDiv(req[t].duration_ms, h.block_duration) * size

\* The raw sample at sample index i of a buffer: its little-endian pair as a
\* signed 16-bit integer.
RawSample(data, i) ==
  LET v == data[2 * i + 1] + 256 * data[2 * i + 2]
  IN IF v >= 32768 THEN v - 65536 ELSE v

FullBuffer(t) ==
  /\ pc[t] = "done"
  /\ resolved[t].kind = "Ok"
  /\ Len(resolved[t].value) = reads[t][1].length

\* C4: when the buffer read has the planned length, the result is Ok with
\* one sequence per signal in header order; sequence j has blocks_to_read *
\* n_j elements, and its element b * n_j + s (from 0) is
\* (d - digital_minimum_j) * scale_factor_j + physical_minimum_j for the raw
\* sample d at index b * (sum of all n_i) + (sum of n_i, i < j) + s.
C4_DecodedSamples ==
  \A t \in Tasks :
    FullBuffer(t) =>
      LET h == closure[t].header
          blocks == closure[t].number_of_blocks_to_get
          data == resolved[t].value
          perBlock == SumSamples(h.channels, Len(h.channels))
      IN /\ result[t].kind = "Ok"
         /\ Len(result[t].value) = h.number_of_signals
         /\ req[t].duration_ms = 0 =>
              \A j \in 1..h.number_of_signals : result[t].value[j] = << >>
         /\ \A j \in 1..h.number_of_signals :
              LET ch == h.channels[j]
                  n == ch.number_of_samples_in_data_record
              IN /\ Len(result[t].value[j]) = blocks * n
                 /\ \A b \in 0..(blocks - 1) : \A s \in 0..(n - 1) :
                      result[t].value[j][b * n + s + 1] =
                        (RawSample(data, b * perBlock
                                           + SumSamples(h.channels, j - 1) + s)
                           - ch.digital_minimum) * ch.scale_factor
                        + ch.physical_minimum

\* Two blocks of two channels with differing sample counts were decoded.
C4_Witness ==
  /\ FullBuffer(1)
  /\ closure[1].number_of_blocks_to_get >= 2
  /\ closure[1].header.number_of_signals = 2
  /\ closure[1].header.channels[1].number_of_samples_in_data_record = 1
  /\ closure[1].header.channels[2].number_of_samples_in_data_record = 2
  /\ result[1].kind = "Ok"
  /\ Len(result[1].value[2]) >= 4

ShortBuffer(t) ==
  /\ pc[t] = "done"
  /\ resolved[t].kind = "Ok"
  /\ Len(resolved[t].value) < reads[t][1].length

\* C5: when the buffer read is shorter than planned, the result is the
\* UnexpectedEof error of the first sample whose two bytes are not both
\* there, sample index floor(len / 2), and nothing else: no samples.
C5_TruncatedBufferFails ==
  \A t \in Tasks :
    ShortBuffer(t) =>
      LET len == Len(resolved[t].value)
      IN result[t] = Err(UnexpectedEof(len \div 2, 2 * (len \div 2) + 2, len))

\* A buffer that ends in the middle of a sample after whole samples.
C5_Witness ==
  /\ ShortBuffer(1)
  /\ Len(resolved[1].value) >= 3
  /\ Len(resolved[1].value) % 2 = 1
  /\ closure[1].header.number_of_signals = 2
  /\ result[1].kind = "Err"

\* C6: get_sample(data, i) is an UnexpectedEof error exactly when
\* 2 * i + 2 > len(data); otherwise it is the signed 16-bit value of the
\* little-endian pair data[2i], data[2i+1]: [200, 1] is 456 and [44, 238]
\* is -4564.
C6_GetSample ==
  sResult # NoResult =>
    /\ (sResult.kind = "Err") <=> (2 * sIndex + 2 > Len(sData))
    /\ sResult.kind = "Err" => sResult.error.kind = "UnexpectedEof"
    /\ sResult.kind = "Ok" =>
         LET v == sData[2 * sIndex + 1] + 256 * sData[2 * sIndex + 2]
         IN sResult.value = (IF v >= 32768 THEN v - 65536 ELSE v)
    /\ (sData = << 200, 1 >> /\ sIndex = 0) => sResult = Ok(456)
    /\ (sData = << 44, 238 >> /\ sIndex = 0) => sResult = Ok(0 - 4564)
    /\ (sData = << 200, 1, 44, 238 >> /\ sIndex = 1) => sResult = Ok(0 - 4564)
    /\ (sData = << 200 >> /\ sIndex = 0) => sResult.kind = "Err"

\* The second sample of a four-byte buffer was read, and it is negative.
C6_Witness ==
  /\ sData = << 200, 1, 44, 238 >>
  /\ sIndex = 1
  /\ sResult = Ok(0 - 4564)

\* C7: init_with_file_reader first issues read(0, 256); read(256,
\* number_of_signals * 256) is issued only once the first read succeeded,
\* with the number of signals of the general header; a reader is produced
\* exactly when both reads succeeded; a failed read is the error of the
\* initialization, and after a failed first read there is no second read.
C7_InitReadsSequenced ==
  /\ Len(initReads) <= 2
  /\ Len(initResolved) <= Len(initReads)
  /\ initReads # << >> => initReads[1] = ReadRequest(0, 256)
  /\ Len(initReads) = 2 =>
       /\ initResolved # << >>
       /\ initResolved[1] = "ok"
       /\ initReads[2] = ReadRequest(256, file.number_of_signals * 256)
  /\ (initPc = "ready") <=> (initResolved = << "ok", "ok" >>)
  /\ initPc = "ready" => (edf_header = file /\ initError = NoResult)
  /\ (\E i \in 1..Len(initResolved) : initResolved[i] = "err") <=>
       (initPc = "failed")
  /\ initPc = "failed" => initError = Err(IoError)
  /\ initResolved = << "err" >> => Len(initReads) = 1
  /\ \A t \in Tasks : Called(t) => initPc = "ready"

\* A reader of a file with two signals was produced.
C7_Witness ==
  /\ initPc = "ready"
  /\ file.number_of_signals = 2
  /\ initReads[2] = ReadRequest(256, 512)

\* C8: in every interleaving of the windowed reads of two callers, a
\* rejected window issues no read; an accepted one issues exactly one; the
\* closure decodes only after the caller's own read resolved to bytes, and
\* at most once; a failed read is the result, with no decoding; the reader's
\* header stays as built.
C8_OneReadThenDecode ==
  /\ initPc = "ready" => edf_header = file
  /\ \A t \in Tasks :
       /\ result[t] = Err(InvalidInput) => (reads[t] = << >> /\ decodes[t] = 0)
       /\ pc[t] \in {"reading", "resolved"} => Len(reads[t]) = 1
       /\ (pc[t] = "done" /\ result[t] # Err(InvalidInput)) =>
            Len(reads[t]) = 1
       /\ pc[t] \in {"idle", "panicked"} => reads[t] = << >>
       /\ decodes[t] <= 1
       /\ decodes[t] = 1 => (pc[t] = "done" /\ resolved[t].kind = "Ok")
       /\ pc[t] = "reading" => (resolved[t] = NoResult /\ decodes[t] = 0)
       /\ (pc[t] = "done" /\ resolved[t].kind = "Err") =>
            (result[t] = resolved[t] /\ decodes[t] = 0)
       /\ Accepted(t) => closure[t].header = edf_header

\* One caller's window was decoded while the other's read is in flight and
\* was issued first or later.
C8_Witness ==
  /\ pc[1] = "done"
  /\ decodes[1] = 1
  /\ pc[2] = "reading"
  /\ decodes[2] = 0

\* C9: a window that extends past the end of the recording (start_time +
\* duration > block_duration * number_of_blocks, as integers) is never
\* accepted by check_bounds, also when the 64-bit sum wraps around.  Stated
\* for headers with block_duration > 0.
C9_NoAcceptanceOnWrap ==
  \A t \in Tasks :
    (Called(t) /\ edf_header.block_duration > 0 /\ WindowEnd(t) > Recording) =>
      check_bounds(req[t].start_time_ms, req[t].duration_ms, edf_header,
                   overflowChecks).kind # "Ok"

\* C10: for an accepted window with block_duration > 0 whose end does not
\* overflow, the bytes read lie in the data region: floor(start_time /
\* block_duration) + blocks_to_read <= number_of_blocks, offset >=
\* byte_size_header and offset + length <= byte_size_header +
\* number_of_blocks * data_record_byte_size.
C10_ReadInsideDataRegion ==
  \A t \in Tasks :
    (/\ Accepted(t)
     /\ SumFits(t)
     /\ closure[t].header.block_duration > 0) =>
      LET h == closure[t].header
          size == get_size_of_data_block(h)
      IN /\ FloorDiv(req[t].start_time_ms, h.block_duration)
              + closure[t].number_of_blocks_to_get <= h.number_of_blocks
         /\ reads[t][1].offset >= h.byte_size_header
         /\ reads[t][1].offset + reads[t][1].length
              <= h.byte_size_header + h.number_of_blocks * size

====
